---- MODULE Spec2Model ----
(***************************************************************************)
(* Model of the GDP dashboard script streamlit_app.py: load_data (read_csv *)
(* + melt + to_numeric), the filter expression filtered_df, the chart      *)
(* pivot chart_df and the "GDP Summary Metrics" loop.                      *)
(*                                                                         *)
(* A float64 is modelled as an exact rational [cls, n, d] (cls "num") or   *)
(* as "nan" / "inf".  The GDP values enumerated below are chosen so that   *)
(* GDP / 1e9 is exactly representable in binary, hence the exact           *)
(* arithmetic and the float arithmetic of the script agree on them.        *)
(***************************************************************************)
EXTENDS Integers, Sequences, FiniteSets, TLC

\* ------------------------------------------------------------------ bounds
\* number of year columns modelled (the script has 63: 1960..2022)
NumYears == 3
\* largest number of records in the source file
MaxRows == 2
\* largest number of selected countries
MaxSel == 2

\* ------------------------------------------------------- program constants
\* range(1960, 2023): first year column
MIN_YEAR == 1960
\* last year column of the model (2022 in the script)
MAX_YEAR == MIN_YEAR + NumYears - 1
Years == MIN_YEAR..MAX_YEAR
\* the divisor 1e9 of the summary loop
Divisor == 1000000000
\* number of metric columns, st.columns(4)
NumCols == 4

\* country codes that may occur in the source file or in the selection
Codes == {"DEU", "FRA", "MEX"}

\* ----------------------------------------------------------------- floats
Abs(x) == IF x < 0 THEN -x ELSE x

RECURSIVE GCD(_, _)
GCD(a, b) == IF b = 0 THEN a ELSE GCD(b, a % b)

NaN == [cls |-> "nan", n |-> 0, d |-> 1]
Inf(sign) == [cls |-> "inf", n |-> sign, d |-> 1]

\* the rational n/d in lowest terms with a positive denominator
Rat(n, d) ==
    LET g == GCD(Abs(n), Abs(d))
        s == IF d < 0 THEN -1 ELSE 1
    IN  [cls |-> "num", n |-> s * (n \div g), d |-> Abs(d) \div g]

Num(x) == Rat(x, 1)

isnan(x) == x.cls = "nan"

Sign(x) == IF x.n < 0 THEN -1 ELSE 1

\* x / y on numpy float64 scalars: nan propagates, a division by zero gives
\* inf (nan for 0/0) with a warning, not an exception
FloatDiv(x, y) ==
    IF isnan(x) \/ isnan(y) THEN NaN
    ELSE IF x.cls = "inf" /\ y.cls = "inf" THEN NaN
    ELSE IF x.cls = "inf" THEN Inf(Sign(x) * Sign(y))
    ELSE IF y.cls = "inf" THEN Num(0)
    ELSE IF y.n = 0 THEN (IF x.n = 0 THEN NaN ELSE Inf(Sign(x)))
    ELSE Rat(x.n * y.d, x.d * y.n)

\* x == 0 on floats
IsZero(x) == x.cls = "num" /\ x.n = 0

RECURSIVE Pow10(_)
Pow10(k) == IF k = 0 THEN 1 ELSE 10 * Pow10(k - 1)

\* round-half-even of the non-negative rational n/d to an integer
RoundHalfEven(n, d) ==
    LET q == n \div d
        r == n % d
    IN  IF 2 * r > d THEN q + 1
        ELSE IF 2 * r < d THEN q
        ELSE q + (q % 2)

\* format(x, ".<dec>f"): the text is sign, then units / 10^dec written with
\* dec decimals ("nan", "inf" for the non-finite values; a negative value
\* that rounds to zero keeps its sign, "-0")
Format(x, dec) ==
    IF x.cls = "nan" THEN [cls |-> "nan", neg |-> FALSE, units |-> 0, dec |-> dec]
    ELSE IF x.cls = "inf" THEN [cls |-> "inf", neg |-> x.n < 0, units |-> 0, dec |-> dec]
    ELSE [cls |-> "num", neg |-> x.n < 0,
          units |-> RoundHalfEven(Abs(x.n) * Pow10(dec), x.d), dec |-> dec]

\* ------------------------------------------------------------ column names
\* str(y): the decimal digits of y
RECURSIVE Str(_)
Str(y) == IF y < 10 THEN <<y>> ELSE Append(Str(y \div 10), y % 10)

\* pd.to_numeric on a string of digits
RECURSIVE ToNumeric(_)
ToNumeric(s) ==
    IF Len(s) = 0 THEN 0
    ELSE 10 * ToNumeric(SubSeq(s, 1, Len(s) - 1)) + s[Len(s)]

\* value_vars with the last year left out, range(1960, 2022)
value_vars_OffByOne == [i \in 1..(NumYears - 1) |-> Str(MIN_YEAR + i - 1)]

\* value_vars = [str(y) for y in range(1960, 2023)]
value_vars == [i \in 1..NumYears |-> Str(MIN_YEAR + i - 1)]

YearCols == {value_vars[i] : i \in 1..Len(value_vars)}

\* ------------------------------------------------------------------ inputs
\* GDP cells of the source file: blank, zero, negative, and two positive
\* values whose quotient needs rounding
GDPVals == <<NaN, Num(0), Num(-500000000), Num(1000000000), Num(1500000000)>>

\* the year columns of a source record: a rotation of GDPVals, so that every
\* ordered pair of cell values occurs at some pair of years
Series(k) ==
    [c \in YearCols |->
        GDPVals[((ToNumeric(c) - MIN_YEAR + k) % Len(GDPVals)) + 1]]

RawRecords ==
    {[code |-> c, cols |-> Series(k)] : c \in Codes, k \in 0..(Len(GDPVals) - 1)}

RECURSIVE SeqsUpTo(_, _)
SeqsUpTo(S, n) ==
    IF n = 0 THEN {<<>>}
    ELSE LET shorter == SeqsUpTo(S, n - 1)
         IN  shorter \cup {Append(s, x) : s \in {t \in shorter : Len(t) = n - 1}, x \in S}

\* the files read_csv hands to melt: any records, in any order, the same
\* country code possibly on two lines
SourceFiles == SeqsUpTo(RawRecords, MaxRows)

NoRepeat(s) == \A i, j \in 1..Len(s) : s[i] = s[j] => i = j

\* the criteria handed to the stages: any ordered list of distinct codes and
\* any pair of years of the table
Selections == {s \in SeqsUpTo(Codes, MaxSel) : NoRepeat(s)}
YearRanges == Years \X Years

\* ------------------------------------------------------------------- state
VARIABLES
    raw_df,              \* the source file as read by pd.read_csv
    gdp_df,              \* the cached long-format table, gdp_df = load_data()
    year_range,          \* <<from_year, to_year>>
    selected_countries,  \* the selected codes, in selection order
    filtered_df,         \* the filter stage's result
    chart_df,            \* what the chart section produced
    metrics,             \* the metric cards of the summary loop, in order
    pc                   \* the script's position

vars == <<raw_df, gdp_df, year_range, selected_countries, filtered_df,
          chart_df, metrics, pc>>

Range(s) == {s[i] : i \in 1..Len(s)}

NotRun == [status |-> "not run"]

\* --------------------------------------------------------------- load_data
\* a melt that emits record after record, each with its years in order
melt_CountryMajor(raw) ==
    [k \in 1..(Len(value_vars) * Len(raw)) |->
        LET col == value_vars[((k - 1) % Len(value_vars)) + 1]
            rec == raw[((k - 1) \div Len(value_vars)) + 1]
        IN  [code |-> rec.code, year |-> col, gdp |-> rec.cols[col]]]

\* raw_df.melt(id_vars=['Country Code'], value_vars=..., var_name='Year',
\* value_name='GDP'): one block per value column, in value_vars order, each
\* block holding the records in file order
melt(raw) ==
    LET n == Len(raw)
    IN  [k \in 1..(Len(value_vars) * n) |->
            LET col == value_vars[((k - 1) \div n) + 1]
                rec == raw[((k - 1) % n) + 1]
            IN  [code |-> rec.code, year |-> col, gdp |-> rec.cols[col]]]

\* df['Year'] = pd.to_numeric(df['Year'])
YearToNumeric(df) ==
    [k \in 1..Len(df) |-> [df[k] EXCEPT !.year = ToNumeric(df[k].year)]]

load_data(raw) == YearToNumeric(melt(raw))

\* ------------------------------------------------------------ filter stage
\* a filter whose upper year bound is exclusive
Filter_StrictUpper(df, yr, sel) ==
    LET keep(r) == /\ r.code \in Range(sel)
                   /\ r.year >= yr[1]
                   /\ r.year < yr[2]
    IN  SelectSeq(df, keep)

\* a filter that reads an empty selection as "all countries"
Filter_EmptyMeansAll(df, yr, sel) ==
    LET keep(r) == /\ (Len(sel) = 0 \/ r.code \in Range(sel))
                   /\ r.year >= yr[1]
                   /\ r.year <= yr[2]
    IN  SelectSeq(df, keep)

\* a filter that orders the two years before comparing
Filter_InvertsRange(df, yr, sel) ==
    LET lo == IF yr[1] <= yr[2] THEN yr[1] ELSE yr[2]
        hi == IF yr[1] <= yr[2] THEN yr[2] ELSE yr[1]
        keep(r) == /\ r.code \in Range(sel)
                   /\ r.year >= lo
                   /\ r.year <= hi
    IN  SelectSeq(df, keep)

\* gdp_df[isin(selected_countries) & (Year >= year_range[0]) &
\*        (Year <= year_range[1])]
Filter(df, yr, sel) ==
    LET keep(r) == /\ r.code \in Range(sel)
                   /\ r.year >= yr[1]
                   /\ r.year <= yr[2]
    IN  SelectSeq(df, keep)

\* ------------------------------------------------------------------- pivot
\* two rows with the same (Year, Country Code)
HasDuplicate(df) ==
    \E i, j \in 1..Len(df) :
        i # j /\ df[i].year = df[j].year /\ df[i].code = df[j].code

\* a pivot that keeps one of the rows of a repeated pair instead of raising
pivot_NoDuplicateCheck(df) ==
    LET index == {df[i].year : i \in 1..Len(df)}
        columns == {df[i].code : i \in 1..Len(df)}
        cell(y, c) ==
            IF \E i \in 1..Len(df) : df[i].year = y /\ df[i].code = c
            THEN df[CHOOSE i \in 1..Len(df) :
                       df[i].year = y /\ df[i].code = c].gdp
            ELSE NaN
    IN  [status |-> "ok",
         data |-> [y \in index |-> [c \in columns |-> cell(y, c)]]]

\* DataFrame.pivot(index="Year", columns="Country Code", values="GDP"):
\* raises ValueError on a duplicate (index, column) entry; otherwise one row
\* per year present and one column per code present, NaN where no row exists
pivot(df) ==
    IF HasDuplicate(df) THEN [status |-> "ValueError"]
    ELSE LET index == {df[i].year : i \in 1..Len(df)}
             columns == {df[i].code : i \in 1..Len(df)}
             cell(y, c) ==
                 IF \E i \in 1..Len(df) : df[i].year = y /\ df[i].code = c
                 THEN df[CHOOSE i \in 1..Len(df) :
                            df[i].year = y /\ df[i].code = c].gdp
                 ELSE NaN
         IN  [status |-> "ok",
              data |-> [y \in index |-> [c \in columns |-> cell(y, c)]]]

\* ------------------------------------------------------------ summary loop
\* df[df["Year"] == y]
YearRows(df, y) == LET at(r) == r.year = y IN SelectSeq(df, at)

\* df[df["Country Code"] == country]["GDP"]
GDPColumn(df, country) ==
    LET of(r) == r.code = country
        rows == SelectSeq(df, of)
    IN  [k \in 1..Len(rows) |-> rows[k].gdp]

\* series.iat[0]: IndexError on an empty series
iat0(series) ==
    IF Len(series) = 0 THEN [raised |-> TRUE]
    ELSE [raised |-> FALSE, val |-> series[1]]

\* a growth that tests the baseline for nan only
growth_of_NoZeroCheck(first, last) ==
    IF isnan(first)
    THEN [growth |-> [text |-> "n/a"], delta_color |-> "off"]
    ELSE [growth |-> [text |-> "x", ratio |-> Format(FloatDiv(last, first), 2)],
          delta_color |-> "normal"]

\* a growth that clamps a negative ratio to zero
growth_of_Clamped(first, last) ==
    IF isnan(first) \/ IsZero(first)
    THEN [growth |-> [text |-> "n/a"], delta_color |-> "off"]
    ELSE LET q == FloatDiv(last, first)
         IN  [growth |-> [text |-> "x",
                          ratio |-> Format(IF q.n < 0 THEN Num(0) ELSE q, 2)],
              delta_color |-> "normal"]

\* if math.isnan(first) or first == 0: growth = "n/a"
\* else: growth = f"{last / first:.2f}x"
growth_of(first, last) ==
    IF isnan(first) \/ IsZero(first)
    THEN [growth |-> [text |-> "n/a"], delta_color |-> "off"]
    ELSE [growth |-> [text |-> "x", ratio |-> Format(FloatDiv(last, first), 2)],
          delta_color |-> "normal"]

\* the body of the try block for one country
metric_body(first_year_df, last_year_df, country, i) ==
    LET a == iat0(GDPColumn(first_year_df, country))
        b == iat0(GDPColumn(last_year_df, country))
    IN  IF a.raised \/ b.raised THEN [kind |-> "raised", country |-> country]
        ELSE LET first == FloatDiv(a.val, Num(Divisor))
                 last == FloatDiv(b.val, Num(Divisor))
                 g == growth_of(first, last)
             IN  [kind |-> "metric", country |-> country,
                  col |-> i % NumCols,
                  value |-> Format(last, 0),
                  delta |-> g.growth, delta_color |-> g.delta_color]

\* the body without its try/except
try_metric_NoCatch(first_year_df, last_year_df, country, i) ==
    metric_body(first_year_df, last_year_df, country, i)

\* try: ... except Exception: st.metric(label=f"{country} GDP",
\*                                      value="Data not available")
try_metric(first_year_df, last_year_df, country, i) ==
    LET body == metric_body(first_year_df, last_year_df, country, i)
    IN  IF body.kind = "raised"
        THEN [kind |-> "unavailable", country |-> country,
              col |-> i % NumCols, value |-> "Data not available"]
        ELSE body

\* for i, country in enumerate(selected_countries): an exception that leaves
\* the try statement ends the loop and the script
RECURSIVE summary_loop(_, _, _, _, _)
summary_loop(first_year_df, last_year_df, sel, i, cards) ==
    IF i >= Len(sel) THEN [cards |-> cards, raised |-> FALSE]
    ELSE LET card == try_metric(first_year_df, last_year_df, sel[i + 1], i)
         IN  IF card.kind = "raised" THEN [cards |-> cards, raised |-> TRUE]
             ELSE summary_loop(first_year_df, last_year_df, sel, i + 1,
                               Append(cards, card))

\* ----------------------------------------------------------------- actions
Init ==
    /\ raw_df \in SourceFiles
    /\ gdp_df = <<>>
    /\ year_range = <<MIN_YEAR, MIN_YEAR>>
    /\ selected_countries = <<>>
    /\ filtered_df = <<>>
    /\ chart_df = NotRun
    /\ metrics = <<>>
    /\ pc = "load"

\* gdp_df = load_data()
Load ==
    /\ pc = "load"
    /\ gdp_df' = load_data(raw_df)
    /\ pc' = "sidebar"
    /\ UNCHANGED <<raw_df, year_range, selected_countries, filtered_df,
                   chart_df, metrics>>

\* the criteria of this run
Sidebar ==
    /\ pc = "sidebar"
    /\ \E yr \in YearRanges, sel \in Selections :
          /\ year_range' = yr
          /\ selected_countries' = sel
    /\ pc' = "filter"
    /\ UNCHANGED <<raw_df, gdp_df, filtered_df, chart_df, metrics>>

FilterStage ==
    /\ pc = "filter"
    /\ filtered_df' = Filter(gdp_df, year_range, selected_countries)
    /\ pc' = "chart"
    /\ UNCHANGED <<raw_df, gdp_df, year_range, selected_countries,
                   chart_df, metrics>>

\* if not selected_countries: st.info(...) else: chart_df = pivot(...);
\* an exception of pivot is not caught and ends the run
Chart ==
    /\ pc = "chart"
    /\ IF Len(selected_countries) = 0
       THEN /\ chart_df' = [status |-> "info"]
            /\ pc' = "summary"
       ELSE /\ chart_df' = pivot(filtered_df)
            /\ pc' = IF chart_df'.status = "ok" THEN "summary" ELSE "aborted"
    /\ UNCHANGED <<raw_df, gdp_df, year_range, selected_countries,
                   filtered_df, metrics>>

Summary ==
    /\ pc = "summary"
    /\ LET first_year_df == YearRows(gdp_df, year_range[1])
           last_year_df == YearRows(gdp_df, year_range[2])
           out == summary_loop(first_year_df, last_year_df,
                               selected_countries, 0, <<>>)
       IN  /\ metrics' = out.cards
           /\ pc' = IF out.raised THEN "aborted" ELSE "done"
    /\ UNCHANGED <<raw_df, gdp_df, year_range, selected_countries,
                   filtered_df, chart_df>>

\* a widget change reruns the script from the top; load_data is cached
Rerun ==
    /\ pc \in {"done", "aborted"}
    /\ year_range' = <<MIN_YEAR, MIN_YEAR>>
    /\ selected_countries' = <<>>
    /\ filtered_df' = <<>>
    /\ chart_df' = NotRun
    /\ metrics' = <<>>
    /\ pc' = "sidebar"
    /\ UNCHANGED <<raw_df, gdp_df>>

Next == Load \/ Sidebar \/ FilterStage \/ Chart \/ Summary \/ Rerun

Spec == Init /\ [][Next]_vars

\* ------------------------------------------------- vocabulary of the claims
from_year == year_range[1]
to_year == year_range[2]

PostFilter == {"chart", "summary", "done", "aborted"}
Loaded == pc # "load"

\* the row satisfies the criteria
Matches(r) ==
    /\ r.code \in Range(selected_countries)
    /\ from_year <= r.year
    /\ r.year <= to_year

InYearBounds(r) == from_year <= r.year /\ r.year <= to_year

\* the positions of the base table's rows that satisfy the criteria
KeptIdx == {k \in 1..Len(gdp_df) : Matches(gdp_df[k])}

\* the j-th smallest position of KeptIdx
NthKept(j) == CHOOSE k \in KeptIdx : Cardinality({m \in KeptIdx : m <= k}) = j

\* the rows at KeptIdx, in the base table's order
MatchingRows == [j \in 1..Cardinality(KeptIdx) |-> gdp_df[NthKept(j)]]

\* the GDP cells of the base table for a country and a year
Cells(c, y) ==
    {gdp_df[k].gdp : k \in {m \in 1..Len(gdp_df) :
                               gdp_df[m].code = c /\ gdp_df[m].year = y}}

TableCodes == {gdp_df[k].code : k \in 1..Len(gdp_df)}
SourceCodes == {raw_df[k].code : k \in 1..Len(raw_df)}

\* how many rows of the table carry the pair (c, y)
PairCount(c, y) ==
    Cardinality({k \in 1..Len(gdp_df) :
                    gdp_df[k].code = c /\ gdp_df[k].year = y})

\* how many records of the source file carry the code c
RecordCount(c) == Cardinality({k \in 1..Len(raw_df) : raw_df[k].code = c})

Pairs(df) == {<<df[k].code, df[k].year>> : k \in 1..Len(df)}

\* the text shows exactly the number x
ShowsExactly(disp, x) ==
    /\ disp.cls = "num"
    /\ disp.neg = (x.n < 0)
    /\ disp.units * x.d = Abs(x.n) * Pow10(disp.dec)

\* the text shows x rounded to the nearest multiple of 10^-dec
ShowsRounded(disp, x, dec) ==
    /\ disp.cls = "num"
    /\ disp.dec = dec
    /\ disp.neg = (x.n < 0)
    /\ 2 * Abs(disp.units * x.d - Abs(x.n) * Pow10(dec)) <= x.d

\* ------------------------------------------------------------------ claims

\* C1: the filter stage returns exactly the rows of the base table whose
\* country_code is selected and whose year lies in [from_year, to_year], in
\* the base table's order, and leaves the base table unchanged.
C1_FilterExact ==
    [][pc = "filter" => /\ filtered_df' = MatchingRows
                        /\ gdp_df' = gdp_df]_vars

\* a filter run that drops rows for their year and rows for their country
C1_Witness ==
    /\ pc = "chart"
    /\ Len(filtered_df) > 0
    /\ \E k \in 1..Len(gdp_df) :
          gdp_df[k].code \in Range(selected_countries) /\ ~InYearBounds(gdp_df[k])
    /\ \E k \in 1..Len(gdp_df) :
          gdp_df[k].code \notin Range(selected_countries) /\ InYearBounds(gdp_df[k])

C9_InvertedRangeEmpty ==
    (pc \in PostFilter /\ from_year > to_year) => filtered_df = <<>>

\* an inverted range whose inversion would select rows
C9_Witness ==
    /\ pc \in PostFilter
    /\ from_year > to_year
    /\ \E k \in 1..Len(gdp_df) :
          /\ gdp_df[k].code \in Range(selected_countries)
          /\ to_year <= gdp_df[k].year
          /\ gdp_df[k].year <= from_year

\* C7 as stated: the loaded table has at most one row per (country_code,
\* year) pair and its pairs are exactly source codes x years.
C7_Original ==
    Loaded =>
        /\ \A c \in Codes, y \in Years : PairCount(c, y) <= 1
        /\ Pairs(gdp_df) = SourceCodes \X Years

\* C7 amended: the loaded table has one row per source record and year, so a
\* pair (c, y) has as many rows as the source has records with code c (at
\* most one when the source's codes are distinct), and its pairs are exactly
\* source codes x years.
C7_OneRowPerRecordAndYear ==
    Loaded =>
        /\ \A c \in Codes, y \in Years : PairCount(c, y) = RecordCount(c)
        /\ Pairs(gdp_df) = SourceCodes \X Years
        /\ Len(gdp_df) = Len(raw_df) * NumYears

\* a loaded file with two records of one country
C7_Witness ==
    /\ Loaded
    /\ \E c \in Codes : RecordCount(c) = 2 /\ PairCount(c, MAX_YEAR) = 2

\* C10 as stated: the loaded rows are country-major, then year-ascending.
C10_Original ==
    Loaded =>
        \A k \in 1..Len(gdp_df) :
            /\ gdp_df[k].code = raw_df[((k - 1) \div NumYears) + 1].code
            /\ gdp_df[k].year = MIN_YEAR + ((k - 1) % NumYears)

\* the codes of the table's rows of year y, in table order
CodesOfYear(y) ==
    LET at(r) == r.year = y
        rows == SelectSeq(gdp_df, at)
    IN  [k \in 1..Len(rows) |-> rows[k].code]

\* C10 amended: the loaded rows are year-major, then in source order: the
\* years never decrease along the table, and the rows of one year list the
\* source records in file order.
C10_YearMajor ==
    Loaded =>
        /\ \A i, j \in 1..Len(gdp_df) : i < j => gdp_df[i].year <= gdp_df[j].year
        /\ \A y \in Years :
              CodesOfYear(y) = [k \in 1..Len(raw_df) |-> raw_df[k].code]

\* a loaded file of two countries
C10_Witness ==
    /\ Loaded
    /\ Len(raw_df) = 2
    /\ raw_df[1].code # raw_df[2].code
    /\ Len(gdp_df) = 2 * NumYears

\* the distinct (country_code, year) pairs are fewer than the rows
RepeatsAPair(df) == Cardinality(Pairs(df)) < Len(df)

PivotRan == chart_df.status \in {"ok", "ValueError"}

\* C8: pivot applied to rows that repeat a (country_code, year) pair fails
\* and produces no mapping (the run stops there); applied to rows with unique
\* pairs it produces the year -> country -> value mapping of the rows, with
\* an entry only for the years present in the input.
C8_Pivot ==
    PivotRan =>
        IF RepeatsAPair(filtered_df)
        THEN /\ chart_df = [status |-> "ValueError"]
             /\ pc = "aborted"
             /\ metrics = <<>>
        ELSE /\ chart_df.status = "ok"
             /\ DOMAIN chart_df.data = {filtered_df[k].year : k \in 1..Len(filtered_df)}
             /\ \A k \in 1..Len(filtered_df) :
                   chart_df.data[filtered_df[k].year][filtered_df[k].code]
                       = filtered_df[k].gdp

\* pivot met a repeated pair
C8_Witness ==
    /\ PivotRan
    /\ RepeatsAPair(filtered_df)
    /\ pc = "aborted"

\* the card of the i-th selected country
Card(i) == metrics[i]

\* country c has a row at from_year, and each such row's GDP is blank or zero
BaselineMissingOrZero(c) ==
    /\ Cells(c, from_year) # {}
    /\ Cells(c, from_year) \subseteq {NaN, Num(0)}

\* C2: a selected country whose GDP at from_year is blank or exactly 0 gets
\* the growth "n/a", never a number, and its card still shows the value at
\* to_year (in whole billions).
C2_NotApplicable ==
    pc = "done" =>
        \A i \in 1..Len(selected_countries) :
            BaselineMissingOrZero(selected_countries[i]) =>
                /\ Card(i).kind = "metric"
                /\ Card(i).delta = [text |-> "n/a"]
                /\ \A v \in Cells(selected_countries[i], to_year) :
                      (Cells(selected_countries[i], to_year) = {v} /\ v.cls = "num")
                          => ShowsRounded(Card(i).value, Rat(v.n, Divisor), 0)

\* a country with GDP exactly 0 at from_year and a non-zero GDP at to_year
C2_Witness ==
    /\ pc = "done"
    /\ \E i \in 1..Len(selected_countries) :
          /\ Cells(selected_countries[i], from_year) = {Num(0)}
          /\ \E v \in Cells(selected_countries[i], to_year) :
                v.cls = "num" /\ v.n # 0
          /\ Card(i).kind = "metric"

\* the country has one present, non-zero GDP at from_year and one present
\* GDP at to_year
HasBothValues(c) ==
    /\ Cardinality(Cells(c, from_year)) = 1
    /\ Cardinality(Cells(c, to_year)) = 1
    /\ \A f \in Cells(c, from_year) : f.cls = "num" /\ f.n # 0
    /\ \A t \in Cells(c, to_year) : t.cls = "num"

FromValue(c) == CHOOSE f \in Cells(c, from_year) : TRUE
ToValue(c) == CHOOSE t \in Cells(c, to_year) : TRUE

\* C3 as stated: such a country's card reports exactly gdp_at_to_year / 1e9
\* and exactly gdp_at_to_year / gdp_at_from_year.
C3_Original ==
    pc = "done" =>
        \A i \in 1..Len(selected_countries) :
            LET c == selected_countries[i] IN
            HasBothValues(c) =>
                /\ Card(i).kind = "metric"
                /\ ShowsExactly(Card(i).value, Rat(ToValue(c).n, Divisor))
                /\ Card(i).delta.text = "x"
                /\ ShowsExactly(Card(i).delta.ratio,
                                Rat(ToValue(c).n, FromValue(c).n))

\* C3 amended: such a country's card reports gdp_at_to_year / 1e9 rounded to
\* a whole number and gdp_at_to_year / gdp_at_from_year rounded to two
\* decimals, unclamped (below 1, negative or large alike); the ratio of the
\* two scaled values is the ratio of the unscaled ones.
C3_RoundedValueAndRatio ==
    pc = "done" =>
        \A i \in 1..Len(selected_countries) :
            LET c == selected_countries[i] IN
            HasBothValues(c) =>
                /\ Card(i).kind = "metric"
                /\ ShowsRounded(Card(i).value, Rat(ToValue(c).n, Divisor), 0)
                /\ Card(i).delta.text = "x"
                /\ ShowsRounded(Card(i).delta.ratio,
                                Rat(ToValue(c).n, FromValue(c).n), 2)
                /\ Card(i).delta_color = "normal"

\* a country whose GDP changes sign between the two years: a negative ratio
\* that two decimals cannot show exactly
C3_Witness ==
    /\ pc = "done"
    /\ \E i \in 1..Len(selected_countries) :
          LET c == selected_countries[i] IN
          /\ HasBothValues(c)
          /\ ToValue(c).n < 0
          /\ FromValue(c).n > 0
          /\ ~ShowsExactly(Card(i).delta.ratio,
                           Rat(ToValue(c).n, FromValue(c).n))

\* C4: a selected country without a row in the base table gets the result
\* "unavailable"; the summary never raises for it, and every selected
\* country gets its own result, in the order of the selection.
C4_AbsentCountryUnavailable ==
    /\ pc = "aborted" => chart_df.status = "ValueError"
    /\ pc = "done" =>
          /\ Len(metrics) = Len(selected_countries)
          /\ \A i \in 1..Len(selected_countries) :
                /\ Card(i).country = selected_countries[i]
                /\ Card(i).kind =
                      IF selected_countries[i] \in TableCodes
                      THEN "metric" ELSE "unavailable"

\* an absent country selected before a country of the table
C4_Witness ==
    /\ pc = "done"
    /\ Len(selected_countries) = 2
    /\ selected_countries[1] \notin TableCodes
    /\ selected_countries[2] \in TableCodes
    /\ Card(2).kind = "metric"

\* the country has a row at to_year and its GDP there is blank
ToValueMissing(c) == Cells(c, to_year) = {NaN}

\* C5: a missing GDP value at to_year yields the outcome "unavailable",
\* never the outcome of a missing or zero baseline ("n/a"), also when the
\* value at from_year is missing too.
C5_MissingToYearUnavailable ==
    pc = "done" =>
        \A i \in 1..Len(selected_countries) :
            ToValueMissing(selected_countries[i]) =>
                Card(i).kind = "unavailable"

====
